---- MODULE Spec2Model ----
(***************************************************************************)
(* Markdown todo application: the Markdown <-> task-forest transform and   *)
(* the PUT /api/v1/projects/[projectId]/raw document resubmission.         *)
(*                                                                         *)
(* A document is a sequence of lines; a line is a record                   *)
(*   [k, text, indent, checked, toks]                                      *)
(* with k in "h1" (# title), "h2" (## section), "task" (- [ ] ...),        *)
(* "other" (blank / prose).  The text of a task line is a sequence of      *)
(* tokens [t, v]: plain words, #due:<v> tags and #repeat:<v> tags.         *)
(* A task forest is kept flat, in pre-order, every task carrying its       *)
(* parentId (NoId for a top-level task).                                   *)
(***************************************************************************)
EXTENDS Integers, Sequences, FiniteSets, TLC

\* ------------------------------------------------------------------------
\* Bounds of the model
\* ------------------------------------------------------------------------
\* store ids are drawn from 1..MaxId and never reused
MaxId == 3
\* a submitted document holds at most MaxDocTasks task lines
MaxDocTasks == 2
\* documents of the pure parse/render specification hold at most MaxLines lines
MaxLines == 3

\* ------------------------------------------------------------------------
\* Values
\* ------------------------------------------------------------------------
NoId == 0
NoValue == "none"
ProjectId == "p"
Statuses == {"todo", "doing", "done"}
Frequencies == {"daily", "weekly", "monthly"}

Word(w) == [t |-> "word", v |-> w]
DueTag(d) == [t |-> "due", v |-> d]
RepeatTag(f) == [t |-> "repeat", v |-> f]

H1(s) == [k |-> "h1", text |-> s, indent |-> 0, checked |-> FALSE, toks |-> <<>>]
H2(s) == [k |-> "h2", text |-> s, indent |-> 0, checked |-> FALSE, toks |-> <<>>]
TaskLine(n, c, ts) == [k |-> "task", text |-> "", indent |-> n, checked |-> c, toks |-> ts]
Blank == [k |-> "other", text |-> "", indent |-> 0, checked |-> FALSE, toks |-> <<>>]

\* ------------------------------------------------------------------------
\* Tag Extractor
\* ------------------------------------------------------------------------
Digits == {"0", "1", "2", "3", "4", "5", "6", "7", "8", "9"}

\* /#due:(\d{4}-\d{2}-\d{2})/ on the text after "#due:", a sequence of characters
MatchesDueDatePattern(v) ==
    /\ Len(v) >= 10
    /\ \A i \in {1, 2, 3, 4, 6, 7, 9, 10} : v[i] \in Digits
    /\ v[5] = "-"
    /\ v[8] = "-"

\* /#repeat:(daily|weekly|monthly)/
MatchesRepeatFrequencyPattern(v) == v \in Frequencies

IsDueTag(tok) == tok.t = "due" /\ MatchesDueDatePattern(tok.v)
IsRepeatTag(tok) == tok.t = "repeat" /\ MatchesRepeatFrequencyPattern(tok.v)

MAX_DUE_TAG_COUNT == 1
MAX_REPEAT_TAG_COUNT == 1

\* the extractor without the count check: the last tag of a kind wins
ExtractTagsLastWins(toks) ==
    LET dues == SelectSeq(toks, IsDueTag)
        reps == SelectSeq(toks, IsRepeatTag)
    IN  [content |-> SelectSeq(toks, LAMBDA k : ~IsDueTag(k) /\ ~IsRepeatTag(k)),
         dueDate |-> IF Len(dues) > 0 THEN SubSeq(dues[Len(dues)].v, 1, 10) ELSE <<>>,
         repeatFrequency |-> IF Len(reps) > 0 THEN reps[Len(reps)].v ELSE NoValue,
         error |-> FALSE]

\* the recognised tags are removed from the text, at most one value per kind
\* is returned, and a second tag of either kind is a validation error
ExtractTags(toks) ==
    LET dues == SelectSeq(toks, IsDueTag)
        reps == SelectSeq(toks, IsRepeatTag)
    IN  [content |-> SelectSeq(toks, LAMBDA k : ~IsDueTag(k) /\ ~IsRepeatTag(k)),
         dueDate |-> IF Len(dues) > 0 THEN SubSeq(dues[1].v, 1, 10) ELSE <<>>,
         repeatFrequency |-> IF Len(reps) > 0 THEN reps[1].v ELSE NoValue,
         error |-> Len(dues) > MAX_DUE_TAG_COUNT \/ Len(reps) > MAX_REPEAT_TAG_COUNT]

\* ------------------------------------------------------------------------
\* Line Classifier and Tree Builder (parseMarkdown)
\* ------------------------------------------------------------------------
SPACES_PER_LEVEL == 4

\* every section header taken for "## Todo"
SectionStatusTodo(name) == "todo"

\* status of a section header; an unrecognised header maps to todo
SectionStatus(name) ==
    CASE name = "Todo" -> "todo"
      [] name = "Doing" -> "doing"
      [] name = "Done" -> "done"
      [] OTHER -> "todo"

\* the level rounded up instead of down
NestingLevelRoundedUp(indent) == (indent + SPACES_PER_LEVEL - 1) \div SPACES_PER_LEVEL

NestingLevel(indent) == indent \div SPACES_PER_LEVEL

\* the pop that stops at a task of the same level
RECURSIVE PopStackToSameLevel(_, _)
PopStackToSameLevel(stack, level) ==
    IF stack # <<>> /\ stack[Len(stack)].level > level
    THEN PopStackToSameLevel(SubSeq(stack, 1, Len(stack) - 1), level)
    ELSE stack

\* pop the stack of open tasks until its top is strictly shallower than level
RECURSIVE PopStack(_, _)
PopStack(stack, level) ==
    IF stack # <<>> /\ stack[Len(stack)].level >= level
    THEN PopStack(SubSeq(stack, 1, Len(stack) - 1), level)
    ELSE stack

ParseInit ==
    [title |-> ProjectId, section |-> "todo", stack |-> <<>>, tasks |-> <<>>, errorLine |-> 0]

\* one classified line consumed by the Tree Builder; line is at position n
ParseLine(acc, line, n) ==
    CASE line.k = "h1" -> [acc EXCEPT !.title = line.text]
      [] line.k = "h2" -> [acc EXCEPT !.section = SectionStatus(line.text)]
      [] line.k = "task" ->
            LET wanted == NestingLevel(line.indent)
                open == PopStack(acc.stack, wanted)
                parent == IF open = <<>> THEN NoId ELSE open[Len(open)].id
                level == IF open = <<>> THEN 0 ELSE wanted
                tags == ExtractTags(line.toks)
                id == Len(acc.tasks) + 1
                task == [id |-> id,
                         content |-> tags.content,
                         status |-> IF line.checked THEN "done" ELSE acc.section,
                         dueDate |-> tags.dueDate,
                         repeatFrequency |-> tags.repeatFrequency,
                         parentId |-> parent,
                         lineNumber |-> n,
                         level |-> level]
            IN  IF tags.error
                THEN [acc EXCEPT !.errorLine = n]
                ELSE [acc EXCEPT !.stack = Append(open, [level |-> level, id |-> id]),
                                 !.tasks = Append(acc.tasks, task)]
      [] OTHER -> acc

RECURSIVE ParseFrom(_, _, _)
ParseFrom(doc, n, acc) ==
    IF n > Len(doc) \/ acc.errorLine # 0
    THEN acc
    ELSE ParseFrom(doc, n + 1, ParseLine(acc, doc[n], n))

\* parseMarkdown(projectId, content, ''): title, forest in document order,
\* errorLine # 0 when a line failed validation (the parse throws)
ParseMarkdown(doc) ==
    LET acc == ParseFrom(doc, 1, ParseInit)
    IN  [title |-> acc.title, tasks |-> acc.tasks, errorLine |-> acc.errorLine]

\* ------------------------------------------------------------------------
\* Forests (flat: every task carries parentId; sibling order is sequence order)
\* ------------------------------------------------------------------------
ChildrenOf(rows, p) == SelectSeq(rows, LAMBDA r : r.parentId = p)

RECURSIVE SubtreesOf(_, _, _)
RECURSIVE SubtreeSeq(_, _, _)
\* pre-order listing, with depth, of the subtrees rooted at the tasks of roots
SubtreeSeq(rows, roots, depth) ==
    IF roots = <<>>
    THEN <<>>
    ELSE SubtreesOf(rows, roots[1], depth) \o SubtreeSeq(rows, Tail(roots), depth)
SubtreesOf(rows, root, depth) ==
    <<[task |-> root, depth |-> depth]>>
        \o SubtreeSeq(rows, ChildrenOf(rows, root.id), depth + 1)

\* the forest as getProject returns it, in pre-order
PreOrder(rows) == SubtreeSeq(rows, ChildrenOf(rows, NoId), 0)

\* ------------------------------------------------------------------------
\* Renderer (renderMarkdown)
\* ------------------------------------------------------------------------
SectionName(status) ==
    CASE status = "todo" -> "Todo"
      [] status = "doing" -> "Doing"
      [] OTHER -> "Done"

RenderTask(task, depth) ==
    TaskLine(SPACES_PER_LEVEL * depth,
             task.status = "done",
             task.content
                \o (IF task.dueDate # <<>> THEN <<DueTag(task.dueDate)>> ELSE <<>>)
                \o (IF task.repeatFrequency # NoValue
                    THEN <<RepeatTag(task.repeatFrequency)>> ELSE <<>>))

RECURSIVE RenderEntries(_)
RenderEntries(entries) ==
    IF entries = <<>>
    THEN <<>>
    ELSE <<RenderTask(entries[1].task, entries[1].depth)>> \o RenderEntries(Tail(entries))

\* one H2 section per non-empty status bucket; a bucket holds the top-level
\* tasks of that status, each followed by its whole subtree
RenderSection(rows, status) ==
    LET roots == SelectSeq(ChildrenOf(rows, NoId), LAMBDA r : r.status = status)
    IN  IF roots = <<>>
        THEN <<>>
        ELSE <<H2(SectionName(status))>> \o RenderEntries(SubtreeSeq(rows, roots, 0))

RenderMarkdown(title, rows) ==
    <<H1(title)>>
        \o RenderSection(rows, "todo")
        \o RenderSection(rows, "doing")
        \o RenderSection(rows, "done")

\* ------------------------------------------------------------------------
\* Comparison of forests up to the ids
\* ------------------------------------------------------------------------
\* position of the task with the given id in a sequence (0 when absent)
IndexOfId(seq, id) ==
    IF \E i \in 1..Len(seq) : seq[i].id = id
    THEN CHOOSE i \in 1..Len(seq) : seq[i].id = id
    ELSE 0

\* the id-free form of a forest given in pre-order: every task with the
\* position of its parent
ShapeOf(pre) ==
    [i \in 1..Len(pre) |->
        [content |-> pre[i].content,
         status |-> pre[i].status,
         dueDate |-> pre[i].dueDate,
         repeatFrequency |-> pre[i].repeatFrequency,
         parent |-> IndexOfId(pre, pre[i].parentId)]]

TasksOf(entries) == [i \in 1..Len(entries) |-> entries[i].task]

\* the id-free form of the forest held in a flat table of rows
ForestShape(rows) == ShapeOf(TasksOf(PreOrder(rows)))

\* ------------------------------------------------------------------------
\* The task store (supabase-adapter): one table of rows
\*   [id, content, status, dueDate, repeatFrequency, parentId]
\* Every row's parentId is NoId or the id of a row of the table.
\* ------------------------------------------------------------------------
Ids == 1..MaxId

IdsOf(rows) == {rows[i].id : i \in 1..Len(rows)}

RECURSIVE DescendantsOf(_, _)
\* the ids of the rows below the rows whose ids are in the set ids
DescendantsOf(rows, ids) ==
    LET kids == {rows[i].id : i \in {j \in 1..Len(rows) : rows[j].parentId \in ids}}
    IN  IF kids = {} THEN {} ELSE kids \cup DescendantsOf(rows, kids)

\* deleteTask(id): the row and all its descendants are removed
DeleteTask(rows, id) ==
    LET gone == {id} \cup DescendantsOf(rows, {id})
    IN  SelectSeq(rows, LAMBDA r : r.id \notin gone)

\* updateTask(id, {content, status, dueDate, repeatFrequency})
UpdateTask(rows, id, task) ==
    [i \in 1..Len(rows) |->
        IF rows[i].id = id
        THEN [rows[i] EXCEPT !.content = task.content,
                             !.status = task.status,
                             !.dueDate = task.dueDate,
                             !.repeatFrequency = task.repeatFrequency]
        ELSE rows[i]]

\* addTask(projectId, content, status, dueDate, parentId, repeatFrequency):
\* a row with a fresh id, last among its siblings
AddTask(rows, newId, task, parentId) ==
    Append(rows, [id |-> newId,
                  content |-> task.content,
                  status |-> task.status,
                  dueDate |-> task.dueDate,
                  repeatFrequency |-> task.repeatFrequency,
                  parentId |-> parentId])

\* a parentId the store accepts for a new row
ParentAccepted(rows, parentId) == parentId = NoId \/ parentId \in IdsOf(rows)

\* ------------------------------------------------------------------------
\* PUT /api/v1/projects/[projectId]/raw, Supabase mode: the change set
\* ------------------------------------------------------------------------
NoTask ==
    [id |-> NoId, content |-> <<>>, status |-> "todo", dueDate |-> <<>>,
     repeatFrequency |-> NoValue, parentId |-> NoId, lineNumber |-> 0, level |-> 0]

\* keys of existingTaskMap, in insertion order (mapExistingTasks)
MapExistingTasks(rows) ==
    LET pre == PreOrder(rows) IN [i \in 1..Len(pre) |-> pre[i].task.id]

\* values of newTaskMap, in insertion order (mapNewTasks)
MapNewTasks(parsedTasks) == TasksOf(PreOrder(parsedTasks))

\* the first loop with its test inverted: deletes the ids that are keys
DeleteOpsOfKept(existingIds, newTasks) ==
    LET doomed == SelectSeq(existingIds, LAMBDA e : e \in IdsOf(newTasks))
    IN  [i \in 1..Len(doomed) |-> [op |-> "delete", id |-> doomed[i], task |-> NoTask]]

\* first loop: one deleteTask per existing id that is no key of newTaskMap
DeleteOps(existingIds, newTasks) ==
    LET doomed == SelectSeq(existingIds, LAMBDA e : e \notin IdsOf(newTasks))
    IN  [i \in 1..Len(doomed) |-> [op |-> "delete", id |-> doomed[i], task |-> NoTask]]

\* second loop: updateTask for a key of existingTaskMap, addTask otherwise
SyncOps(existingIds, newTasks) ==
    [i \in 1..Len(newTasks) |->
        IF \E j \in 1..Len(existingIds) : existingIds[j] = newTasks[i].id
        THEN [op |-> "update", id |-> newTasks[i].id, task |-> newTasks[i]]
        ELSE [op |-> "add", id |-> NoId, task |-> newTasks[i]]]

\* the two loops in the other order: add and update first, delete last
PassOpsSyncFirst(rows, parsedTasks) ==
    SyncOps(MapExistingTasks(rows), MapNewTasks(parsedTasks))
        \o DeleteOps(MapExistingTasks(rows), MapNewTasks(parsedTasks))

\* the store calls of one pass, in the order the handler issues them
PassOps(rows, parsedTasks) ==
    DeleteOps(MapExistingTasks(rows), MapNewTasks(parsedTasks))
        \o SyncOps(MapExistingTasks(rows), MapNewTasks(parsedTasks))

\* ------------------------------------------------------------------------
\* Documents a client submits
\* ------------------------------------------------------------------------
Date1 == <<"2", "0", "2", "5", "-", "1", "1", "-", "2", "3">>

\* the lines an edit types into the document
EditLines ==
    {TaskLine(0, FALSE, <<Word("a")>>),
     TaskLine(4, FALSE, <<Word("b"), DueTag(Date1)>>),
     TaskLine(0, FALSE, <<Word("a"), DueTag(Date1), DueTag(Date1)>>)}

TaskCount(doc) == Len(SelectSeq(doc, LAMBDA l : l.k = "task"))

RemoveAt(doc, i) == SubSeq(doc, 1, i - 1) \o SubSeq(doc, i + 1, Len(doc))
ReplaceAt(doc, i, l) == [doc EXCEPT ![i] = l]
InsertAt(doc, i, l) == SubSeq(doc, 1, i - 1) \o <<l>> \o SubSeq(doc, i, Len(doc))

\* the documents one edit away from doc
Edits(doc) ==
    {RemoveAt(doc, i) : i \in 1..Len(doc)}
        \cup {ReplaceAt(doc, i, l) : i \in 1..Len(doc), l \in EditLines}
        \cup {InsertAt(doc, i, l) : i \in 1..(Len(doc) + 1), l \in EditLines}
        \cup {ReplaceAt(doc, i, H1("U")) : i \in {j \in 1..Len(doc) : doc[j].k = "h1"}}

\* load -> edit -> save: the loaded document, unchanged or edited once
EditedDocs(doc) == {d \in {doc} \cup Edits(doc) : TaskCount(d) <= MaxDocTasks}

\* whole files a client of the file-based mode saves
FileDocs ==
    {<<H1("T")>>,
     <<H1("T"), H2("Todo"), TaskLine(0, FALSE, <<Word("a")>>)>>,
     <<H1("T"), TaskLine(0, FALSE, <<Word("a"), DueTag(Date1), DueTag(Date1)>>)>>,
     <<H1("U"), H2("Done"), TaskLine(0, TRUE, <<Word("b")>>)>>}

\* ------------------------------------------------------------------------
\* State
\* ------------------------------------------------------------------------
VARIABLES
    useSupabase,    \* storage mode chosen by the environment
    tasks,          \* Supabase mode: the task rows of the project
    title,          \* Supabase mode: the title of the project
    usedIds,        \* ids the store has assigned so far
    file,           \* file-based mode: the content of <projectId>.md
    lockHolder,     \* file-based mode: request holding the file lock, or 0
    req,            \* per request: handler position, locals, response, calls made
    pstage,         \* pure transform: "input", "parsed", "rendered", "reparsed"
    pdoc,           \* pure transform: the document given to parseMarkdown
    pparsed,        \* pure transform: parseMarkdown(pdoc)
    prendered,      \* pure transform: renderMarkdown of pparsed
    preparsed,      \* pure transform: parseMarkdown(prendered)
    rstage,         \* recurrence: "input", "done"
    rtask,          \* recurrence: the task being marked done
    rnext,          \* recurrence: the task skeletons produced
    mpc,            \* monitoring: "idle", "awaiting", "resolved", "rejected"
    mcontext,       \* monitoring: the context and logger of the call
    moperation,     \* monitoring: how the wrapped operation settled
    mcalls,         \* monitoring: the calls made to the logger and to Sentry
    mresult,        \* monitoring: the value or error the wrapper settled with
    dateNow,        \* request ids: the value Date.now() returns
    requestIds,     \* request ids: the ids generateRequestId has returned
    performanceNow, \* API transaction: the value performance.now() returns
    transaction,    \* API transaction: the object startApiTransaction returned
    logged,         \* API transaction: the records written to the logger
    editingProjectId, \* Sidebar state: project whose title is edited, or NoValue
    editingTitle,   \* Sidebar state: the text of the title input
    isSubmitting,   \* Sidebar state: a title save is awaited
    rendered,       \* Sidebar: the state the committed render closed over
    inFlight,       \* Sidebar: onProjectTitleUpdate calls not settled yet
    lastSave        \* Sidebar: the last run of handleSave that has ended

serverVars == <<useSupabase, tasks, title, usedIds, file, lockHolder, req>>
parseVars == <<pstage, pdoc, pparsed, prendered, preparsed>>
recurVars == <<rstage, rtask, rnext>>
monVars == <<mpc, mcontext, moperation, mcalls, mresult>>
idVars == <<dateNow, requestIds>>
txVars == <<performanceNow, transaction, logged>>
sidebarVars ==
    <<editingProjectId, editingTitle, isSubmitting, rendered, inFlight, lastSave>>
componentVars == <<idVars, txVars, sidebarVars>>
unitVars == <<parseVars, recurVars, monVars, componentVars>>
vars == <<serverVars, unitVars>>

Requests == {1, 2}

\* route, projectId, userId, typeofBody and newTitle are what the handler was
\* called with; accessed tells whether it reached the store or the file system;
\* ends are the status codes handed to transaction.end
IdleRequest ==
    [pc |-> "idle", method |-> "NONE", content |-> <<>>, project |-> <<>>,
     ops |-> <<>>, i |-> 0, status |-> 0, body |-> <<>>, json |-> {}, calls |-> <<>>,
     fileBefore |-> <<>>, usedBefore |-> {},
     route |-> "", projectId |-> "", userId |-> NoValue, typeofBody |-> "undefined",
     newTitle |-> "", titleBefore |-> "", accessed |-> FALSE, ends |-> <<>>]

NoParse == [title |-> "", tasks |-> <<>>, errorLine |-> 0]

ParseIdle ==
    /\ pstage = "input"
    /\ pdoc = <<>>
    /\ pparsed = NoParse
    /\ prendered = <<>>
    /\ preparsed = NoParse

ServerInit ==
    /\ tasks = <<>>
    /\ title = "T"
    /\ usedIds = {}
    /\ file = <<H1("T")>>
    /\ lockHolder = 0
    /\ req = [r \in Requests |-> IdleRequest]

\* MonitoringContext: operation, and the optional projectId, taskId, action
NoContext ==
    [operation |-> "", projectId |-> NoValue, taskId |-> NoValue, action |-> NoValue]
NoSettlement == [kind |-> "pending", value |-> NoValue]

RecurIdle ==
    /\ rstage = "input"
    /\ rtask = NoTask
    /\ rnext = <<>>

MonIdle ==
    /\ mpc = "idle"
    /\ mcontext = [context |-> NoContext, log |-> NoValue]
    /\ moperation = NoSettlement
    /\ mcalls = <<>>
    /\ mresult = NoSettlement

\* ends is the history of the calls of end: status code and measured duration
NoTransaction ==
    [started |-> FALSE, startTime |-> 0, method |-> "", path |-> "", ends |-> <<>>]

IdsIdle ==
    /\ dateNow = 0
    /\ requestIds = <<>>

TransactionIdle ==
    /\ performanceNow = 0
    /\ transaction = NoTransaction
    /\ logged = <<>>

\* the Sidebar as useState initialises it
SidebarState == [editingProjectId |-> NoValue, editingTitle |-> "", isSubmitting |-> FALSE]

\* a run of handleSave that got past its guard: the project and the text it
\* read, the title it sent, what happened while the call was awaited, and the
\* state values before and after the statements that follow the await
NoSave ==
    [projectId |-> NoValue, typed |-> "", sent |-> "", outcome |-> "none",
     reopened |-> FALSE, retried |-> FALSE, before |-> SidebarState, after |-> SidebarState]

SidebarIdle ==
    /\ editingProjectId = SidebarState.editingProjectId
    /\ editingTitle = SidebarState.editingTitle
    /\ isSubmitting = SidebarState.isSubmitting
    /\ rendered = SidebarState
    /\ inFlight = <<>>
    /\ lastSave = NoSave

ComponentsIdle ==
    /\ IdsIdle
    /\ TransactionIdle
    /\ SidebarIdle

Init ==
    /\ useSupabase \in BOOLEAN
    /\ ServerInit
    /\ ParseIdle
    /\ RecurIdle
    /\ MonIdle
    /\ ComponentsIdle

\* the keys of the JSON object a raw handler answers with
ResponseKeys(method, code) ==
    IF code # 200 THEN {"error"}
    ELSE IF method = "GET" THEN {"content"} ELSE {"success"}

\* ... and a handler of the other routes: a project, or the list of projects
RouteResponseKeys(route, method, code) ==
    IF route = "raw" \/ code # 200 \/ method = "PUT" THEN ResponseKeys(method, code)
    ELSE IF route = "project" THEN {"id", "title", "tasks", "path"}
    ELSE {"projects"}

\* the request as a handler of the given route receives it
Received(method, route, pid, userId, doc) ==
    [IdleRequest EXCEPT !.method = method, !.route = route, !.projectId = pid,
                        !.userId = userId, !.content = doc, !.project = tasks,
                        !.fileBefore = file, !.titleBefore = title]

\* the response of a handler that returns without a further await; accessed
\* tells whether the handler has called the store or the file system by then
Respond(r, received, code, body, accessed) ==
    req' = [req EXCEPT ![r] = [received EXCEPT !.pc = "done", !.status = code,
                                               !.body = body,
                                               !.json = RouteResponseKeys(received.route,
                                                                         received.method, code),
                                               !.accessed = accessed]]

\* validateProjectId: an id that is no plain name is rejected
InvalidProjectId == "../p"
ValidateProjectId(pid) == pid # InvalidProjectId

\* ------------------------------------------------------------------------
\* GET /api/v1/projects/[projectId]/raw
\* ------------------------------------------------------------------------
ProjectIds == {ProjectId, "q", InvalidProjectId}
UserIds == {"u", NoValue}

GetRaw(r, pid, userId) ==
    LET received == Received("GET", "raw", pid, userId, <<>>)
    IN  /\ req[r].pc = "idle"
        /\ IF ~ValidateProjectId(pid)
           THEN Respond(r, received, 400, <<>>, FALSE)
           ELSE IF useSupabase
                THEN IF userId = NoValue
                     THEN Respond(r, received, 401, <<>>, FALSE)
                     ELSE IF pid # ProjectId
                          THEN Respond(r, received, 404, <<>>, TRUE)
                          ELSE Respond(r, received, 200, RenderMarkdown(title, tasks), TRUE)
                ELSE IF pid # ProjectId
                     THEN Respond(r, received, 404, <<>>, TRUE)
                     ELSE Respond(r, received, 200, file, TRUE)
        /\ UNCHANGED <<useSupabase, tasks, title, usedIds, file, lockHolder, unitVars>>

\* ------------------------------------------------------------------------
\* PUT /api/v1/projects/[projectId]/raw
\* ------------------------------------------------------------------------
AddCount(ops) == Len(SelectSeq(ops, LAMBDA o : o.op = "add"))

\* addTask calls the requests in flight have still to make
PendingAdds ==
    LET RECURSIVE Sum(_)
        Sum(rs) ==
            IF rs = {} THEN 0
            ELSE LET q == CHOOSE x \in rs : TRUE
                 IN  (IF req[q].pc = "apply"
                      THEN AddCount(SubSeq(req[q].ops, req[q].i, Len(req[q].ops)))
                      ELSE 0) + Sum(rs \ {q})
    IN  Sum(Requests)

\* the bodies sent: a content that is not a string, or a document
RawBodies(docs) ==
    {[typeof |-> "number", content |-> <<>>]}
        \cup {[typeof |-> "string", content |-> doc] : doc \in docs}

\* Supabase mode, up to the first store call: the two validations, auth,
\* getProject, parseMarkdown, the two maps; a parse that throws is answered by
\* the catch block
PutRawSupabase(r, pid, userId, typeofContent, doc) ==
    LET rejected == [Received("PUT", "raw", pid, userId, <<>>)
                        EXCEPT !.typeofBody = typeofContent]
        received == [Received("PUT", "raw", pid, userId, doc)
                        EXCEPT !.typeofBody = typeofContent]
    IN  /\ req[r].pc = "idle"
        /\ useSupabase
        /\ IF ~ValidateProjectId(pid) \/ typeofContent # "string"
           THEN Respond(r, rejected, 400, <<>>, FALSE)
           ELSE IF userId = NoValue
           THEN Respond(r, rejected, 401, <<>>, FALSE)
           ELSE IF pid # ProjectId
           THEN Respond(r, rejected, 404, <<>>, TRUE)
           ELSE LET parsed == ParseMarkdown(doc)
                    ops == PassOps(tasks, parsed.tasks)
                IN  IF parsed.errorLine # 0
                    THEN Respond(r, received, 500, <<>>, TRUE)
                    ELSE IF ops = <<>>
                         THEN Respond(r, received, 200, <<>>, TRUE)
                         ELSE /\ AddCount(ops) + PendingAdds <= Cardinality(Ids \ usedIds)
                              /\ req' = [req EXCEPT ![r] =
                                           [received EXCEPT !.pc = "apply",
                                                            !.accessed = TRUE,
                                                            !.usedBefore = usedIds,
                                                            !.ops = ops,
                                                            !.i = 1]]
        /\ UNCHANGED <<useSupabase, tasks, title, usedIds, file, lockHolder, unitVars>>

\* the fields of the object handed to updateTask
UpdatedFields == {"content", "status", "dueDate", "repeatFrequency"}

Call(o, id, targetPresent, parentPresent, ok) ==
    [op |-> o.op, id |-> id, nid |-> o.task.id, parentId |-> o.task.parentId,
     fields |-> IF o.op = "update" THEN UpdatedFields ELSE {},
     targetPresent |-> targetPresent, parentPresent |-> parentPresent, ok |-> ok]

\* the awaited store call returned: next loop iteration, or the 200 response
Advance(r, call) ==
    req' = [req EXCEPT ![r].calls = Append(@, call),
                       ![r].i = @ + 1,
                       ![r].pc = IF req[r].i = Len(req[r].ops) THEN "done" ELSE "apply",
                       ![r].status = IF req[r].i = Len(req[r].ops) THEN 200 ELSE 0,
                       ![r].json = IF req[r].i = Len(req[r].ops)
                                   THEN ResponseKeys("PUT", 200) ELSE {}]

\* the awaited store call threw: the catch block answers 500
Caught(r, call) ==
    req' = [req EXCEPT ![r].calls = Append(@, call),
                       ![r].pc = "done",
                       ![r].status = 500,
                       ![r].json = ResponseKeys("PUT", 500)]

CurrentOp(r) == req[r].ops[req[r].i]

PutDeleteTask(r) ==
    /\ req[r].pc = "apply"
    /\ CurrentOp(r).op = "delete"
    /\ tasks' = DeleteTask(tasks, CurrentOp(r).id)
    /\ Advance(r, Call(CurrentOp(r), CurrentOp(r).id,
                       CurrentOp(r).id \in IdsOf(tasks), TRUE, TRUE))
    /\ UNCHANGED <<useSupabase, title, usedIds, file, lockHolder, unitVars>>

PutUpdateTask(r) ==
    /\ req[r].pc = "apply"
    /\ CurrentOp(r).op = "update"
    /\ tasks' = UpdateTask(tasks, CurrentOp(r).id, CurrentOp(r).task)
    /\ Advance(r, Call(CurrentOp(r), CurrentOp(r).id,
                       CurrentOp(r).id \in IdsOf(tasks), TRUE, TRUE))
    /\ UNCHANGED <<useSupabase, title, usedIds, file, lockHolder, unitVars>>

PutAddTask(r, newId) ==
    /\ req[r].pc = "apply"
    /\ CurrentOp(r).op = "add"
    /\ newId \in Ids \ usedIds
    /\ ParentAccepted(tasks, CurrentOp(r).task.parentId)
    /\ tasks' = AddTask(tasks, newId, CurrentOp(r).task, CurrentOp(r).task.parentId)
    /\ usedIds' = usedIds \cup {newId}
    /\ Advance(r, Call(CurrentOp(r), newId, TRUE, TRUE, TRUE))
    /\ UNCHANGED <<useSupabase, title, file, lockHolder, unitVars>>

\* addTask with a parentId that is no row of the table is refused by the store
PutAddTaskRefused(r) ==
    /\ req[r].pc = "apply"
    /\ CurrentOp(r).op = "add"
    /\ ~ParentAccepted(tasks, CurrentOp(r).task.parentId)
    /\ Caught(r, Call(CurrentOp(r), NoId, TRUE, FALSE, FALSE))
    /\ UNCHANGED <<useSupabase, tasks, title, usedIds, file, lockHolder, unitVars>>

\* any store call may reject (connection, database error)
PutStoreCallThrows(r) ==
    /\ req[r].pc = "apply"
    /\ Caught(r, Call(CurrentOp(r), CurrentOp(r).id,
                      CurrentOp(r).id \in IdsOf(tasks),
                      ParentAccepted(tasks, CurrentOp(r).task.parentId), FALSE))
    /\ UNCHANGED <<useSupabase, tasks, title, usedIds, file, lockHolder, unitVars>>

\* file-based mode, up to the wait for the file lock: the two validations,
\* the data directory of the session's user, existsSync
PutRawFile(r, pid, userId, typeofContent, doc) ==
    LET rejected == [Received("PUT", "raw", pid, userId, <<>>)
                        EXCEPT !.typeofBody = typeofContent]
        received == [Received("PUT", "raw", pid, userId, doc)
                        EXCEPT !.typeofBody = typeofContent]
    IN  /\ req[r].pc = "idle"
        /\ ~useSupabase
        /\ IF ~ValidateProjectId(pid) \/ typeofContent # "string"
           THEN Respond(r, rejected, 400, <<>>, FALSE)
           ELSE IF pid # ProjectId
                THEN Respond(r, rejected, 404, <<>>, TRUE)
                ELSE req' = [req EXCEPT ![r] = [received EXCEPT !.pc = "lock",
                                                                !.accessed = TRUE]]
        /\ UNCHANGED <<useSupabase, tasks, title, usedIds, file, lockHolder, unitVars>>

\* withFileLock grants the lock of the file to one waiting request
PutFileLockAcquired(r) ==
    /\ req[r].pc = "lock"
    /\ lockHolder = 0
    /\ lockHolder' = r
    /\ req' = [req EXCEPT ![r].pc = "write"]
    /\ UNCHANGED <<useSupabase, tasks, title, usedIds, file, unitVars>>

\* the callback writes the submitted content, the lock is released, 200
PutFileWrite(r) ==
    /\ req[r].pc = "write"
    /\ lockHolder = r
    /\ file' = req[r].content
    /\ lockHolder' = 0
    /\ req' = [req EXCEPT ![r].pc = "done", ![r].status = 200,
                           ![r].json = ResponseKeys("PUT", 200)]
    /\ UNCHANGED <<useSupabase, tasks, title, usedIds, unitVars>>

\* ------------------------------------------------------------------------
\* GET /api/v1/projects
\* ------------------------------------------------------------------------
\* how the awaited getAllProjects() settles
Settlements == {"resolved", "rejected"}

\* the transaction is ended in the try block only
GetProjectsEndsInTryOnly(settled) == IF settled = "resolved" THEN <<200>> ELSE <<>>

\* the status codes the handler hands to transaction.end
GetProjectsEnds(settled) == IF settled = "resolved" THEN <<200>> ELSE <<500>>

\* the handler takes no request and consults no session
GetProjects(r, userId, settled) ==
    /\ req[r].pc = "idle"
    /\ req' = [req EXCEPT ![r] =
                [Received("GET", "projects", "", userId, <<>>)
                    EXCEPT !.pc = "done",
                           !.status = IF settled = "resolved" THEN 200 ELSE 500,
                           !.json = RouteResponseKeys("projects", "GET",
                                        IF settled = "resolved" THEN 200 ELSE 500),
                           !.accessed = TRUE,
                           !.ends = GetProjectsEnds(settled)]]
    /\ UNCHANGED <<useSupabase, tasks, title, usedIds, file, lockHolder, unitVars>>

\* ------------------------------------------------------------------------
\* GET and PUT /api/v1/projects/[projectId]
\* ------------------------------------------------------------------------
GetProject(r, pid, userId) ==
    LET received == Received("GET", "project", pid, userId, <<>>)
    IN  /\ req[r].pc = "idle"
        /\ IF ~ValidateProjectId(pid)
           THEN Respond(r, received, 400, <<>>, FALSE)
           ELSE IF userId = NoValue
                THEN Respond(r, received, 401, <<>>, FALSE)
                ELSE IF pid # ProjectId
                     THEN Respond(r, received, 404, <<>>, TRUE)
                     ELSE Respond(r, received, 200, <<>>, TRUE)
        /\ UNCHANGED <<useSupabase, tasks, title, usedIds, file, lockHolder, unitVars>>

\* the titles of the model and their characters
Titles == {"", "T", "U", " U ", "  "}
Chars(str) ==
    CASE str = "" -> <<>>
      [] str = "T" -> <<"T">>
      [] str = "U" -> <<"U">>
      [] str = " U " -> <<" ", "U", " ">>
      [] str = "  " -> <<" ", " ">>
Text(chars) == CHOOSE str \in Titles : Chars(str) = chars

RECURSIVE TrimStart(_)
TrimStart(chars) ==
    IF chars # <<>> /\ Head(chars) = " " THEN TrimStart(Tail(chars)) ELSE chars

RECURSIVE TrimEnd(_)
TrimEnd(chars) ==
    IF chars # <<>> /\ chars[Len(chars)] = " "
    THEN TrimEnd(SubSeq(chars, 1, Len(chars) - 1))
    ELSE chars

\* String.prototype.trim
Trim(str) == Text(TrimEnd(TrimStart(Chars(str))))

\* validateProjectTitle: a string that is not empty once trimmed
ValidateProjectTitle(typeofTitle, newTitle) ==
    typeofTitle = "string" /\ Trim(newTitle) # ""

\* the title is stored as it was sent
UntrimmedTitle(newTitle) == newTitle

\* const trimmedTitle = title.trim()
TrimmedTitle(newTitle) == Trim(newTitle)

\* updateProjectTitle: the H1 line of the project file is rewritten
UpdateProjectTitle(doc, newTitle) ==
    [i \in 1..Len(doc) |-> IF doc[i].k = "h1" THEN H1(newTitle) ELSE doc[i]]

\* the request bodies: a title, or a body without one
TitleBodies ==
    {[typeof |-> "string", title |-> t] : t \in {" U ", "T", "  "}}
        \cup {[typeof |-> "undefined", title |-> ""]}

PutProject(r, pid, userId, typeofTitle, newTitle) ==
    LET received == [Received("PUT", "project", pid, userId, <<>>)
                        EXCEPT !.typeofBody = typeofTitle, !.newTitle = newTitle]
        rejection == IF ~ValidateProjectId(pid) THEN 400
                     ELSE IF userId = NoValue THEN 401
                     ELSE IF ~ValidateProjectTitle(typeofTitle, newTitle) THEN 400
                     ELSE 0
    IN  /\ req[r].pc = "idle"
        /\ IF rejection # 0
           THEN /\ Respond(r, received, rejection, <<>>, FALSE)
                /\ UNCHANGED <<title, file>>
           ELSE IF useSupabase
                THEN /\ title' = IF pid = ProjectId THEN TrimmedTitle(newTitle) ELSE title
                     /\ Respond(r, received, 200, <<>>, TRUE)
                     /\ UNCHANGED file
                ELSE IF pid # ProjectId
                     THEN /\ Respond(r, received, 404, <<>>, TRUE)
                          /\ UNCHANGED <<title, file>>
                     ELSE /\ file' = UpdateProjectTitle(file, TrimmedTitle(newTitle))
                          /\ Respond(r, received, 200, <<>>, TRUE)
                          /\ UNCHANGED title
        /\ UNCHANGED <<useSupabase, tasks, usedIds, lockHolder, unitVars>>

\* the client has read the response; the request slot is free again
Reset(r) ==
    /\ req[r].pc = "done"
    /\ req' = [req EXCEPT ![r] = IdleRequest]
    /\ UNCHANGED <<useSupabase, tasks, title, usedIds, file, lockHolder, unitVars>>

\* POST /api/v1/projects/[projectId]/tasks: a task inserted directly
PostTask(newId, parentId) ==
    /\ useSupabase
    /\ \A r \in Requests : req[r].pc = "idle"
    /\ Len(tasks) < MaxDocTasks
    /\ newId \in Ids \ usedIds
    /\ ParentAccepted(tasks, parentId)
    /\ tasks' = AddTask(tasks, newId,
                         [NoTask EXCEPT !.content = <<Word("b")>>, !.dueDate = Date1],
                         parentId)
    /\ usedIds' = usedIds \cup {newId}
    /\ UNCHANGED <<useSupabase, title, file, lockHolder, req, unitVars>>

\* the document a client holds: the project as GET raw returns it
CurrentDocument == IF useSupabase THEN RenderMarkdown(title, tasks) ELSE file

RequestStep(r) ==
    \/ \E pid \in ProjectIds, userId \in UserIds : GetRaw(r, pid, userId)
    \/ \E pid \in ProjectIds, userId \in UserIds,
          body \in RawBodies(EditedDocs(CurrentDocument)) :
            PutRawSupabase(r, pid, userId, body.typeof, body.content)
    \/ PutDeleteTask(r)
    \/ PutUpdateTask(r)
    \/ \E newId \in Ids : PutAddTask(r, newId)
    \/ PutAddTaskRefused(r)
    \/ PutStoreCallThrows(r)
    \/ \E pid \in ProjectIds, userId \in UserIds,
          body \in RawBodies(FileDocs \cup {file}) :
            PutRawFile(r, pid, userId, body.typeof, body.content)
    \/ PutFileLockAcquired(r)
    \/ PutFileWrite(r)
    \/ Reset(r)

\* one client, one request at a time
Next ==
    \/ RequestStep(1)
    \/ \E newId \in Ids, parentId \in Ids \cup {NoId} : PostTask(newId, parentId)

Spec == Init /\ [][Next]_vars

\* the handlers that read or change project data, one request at a time
RouteStep(r) ==
    \/ RequestStep(r)
    \/ \E userId \in UserIds, settled \in Settlements : GetProjects(r, userId, settled)
    \/ \E pid \in ProjectIds, userId \in UserIds : GetProject(r, pid, userId)
    \/ \E pid \in ProjectIds, userId \in UserIds, body \in TitleBodies :
            PutProject(r, pid, userId, body.typeof, body.title)

NextRoutes == RouteStep(1)

SpecRoutes == Init /\ [][NextRoutes]_vars

\* ------------------------------------------------------------------------
\* The pure transform on its own: parse, render, parse again
\* ------------------------------------------------------------------------
Date2 == <<"2", "0", "2", "5", "-", "1", "3", "-", "4", "0">>

\* the lines of the documents given to the parser
ParseLines ==
    {H1("U"), H2("Doing"), H2("Done"), H2("Notes"), Blank,
     TaskLine(0, FALSE, <<Word("a")>>),
     TaskLine(0, TRUE, <<Word("a")>>),
     TaskLine(4, FALSE, <<Word("b")>>),
     TaskLine(5, FALSE, <<Word("b")>>),
     TaskLine(4, TRUE, <<RepeatTag("weekly"), Word("b"), DueTag(Date1)>>),
     TaskLine(8, FALSE, <<DueTag(Date1), Word("c"), RepeatTag("daily")>>),
     TaskLine(0, FALSE, <<Word("a"), DueTag(Date1), DueTag(Date2)>>),
     TaskLine(0, FALSE, <<Word("a"), RepeatTag("weekly"), RepeatTag("daily")>>),
     TaskLine(0, FALSE, <<Word("a"), DueTag(Date2)>>)}

\* the documents of n lines
DocsOfLength(n) == [1..n -> ParseLines]

InitParse ==
    /\ useSupabase = TRUE
    /\ ServerInit
    /\ pstage = "input"
    /\ \E n \in 0..MaxLines : pdoc \in DocsOfLength(n)
    /\ pparsed = NoParse
    /\ prendered = <<>>
    /\ preparsed = NoParse
    /\ RecurIdle
    /\ MonIdle
    /\ ComponentsIdle

DoParse ==
    /\ pstage = "input"
    /\ pparsed' = ParseMarkdown(pdoc)
    /\ pstage' = IF ParseMarkdown(pdoc).errorLine # 0 THEN "rejected" ELSE "parsed"
    /\ UNCHANGED <<pdoc, prendered, preparsed, serverVars, recurVars, monVars, componentVars>>

DoRender ==
    /\ pstage = "parsed"
    /\ prendered' = RenderMarkdown(pparsed.title, pparsed.tasks)
    /\ pstage' = "rendered"
    /\ UNCHANGED <<pdoc, pparsed, preparsed, serverVars, recurVars, monVars, componentVars>>

DoReparse ==
    /\ pstage = "rendered"
    /\ preparsed' = ParseMarkdown(prendered)
    /\ pstage' = "reparsed"
    /\ UNCHANGED <<pdoc, pparsed, prendered, serverVars, recurVars, monVars, componentVars>>

NextParse == DoParse \/ DoRender \/ DoReparse

SpecParse == InitParse /\ [][NextParse]_vars

\* ------------------------------------------------------------------------
\* Properties
\* ------------------------------------------------------------------------
FieldsOf(task) ==
    [content |-> task.content, status |-> task.status, dueDate |-> task.dueDate,
     repeatFrequency |-> task.repeatFrequency]

RECURSIVE PathOf(_, _)
\* the fields of the task with the given id and of its ancestors, root first
PathOf(seq, id) ==
    IF IndexOfId(seq, id) = 0
    THEN <<>>
    ELSE Append(PathOf(seq, seq[IndexOfId(seq, id)].parentId),
                FieldsOf(seq[IndexOfId(seq, id)]))

\* a forest as the set of its tasks, each with its chain of ancestors
PathsOf(seq) == {PathOf(seq, seq[i].id) : i \in 1..Len(seq)}

\* C1: parsing the Markdown rendered from a parsed document yields the same
\* title and, for every task, the same content, status, dueDate,
\* repeatFrequency and place in the parent/child hierarchy.
C1_RoundTrip ==
    pstage = "reparsed" =>
        /\ preparsed.errorLine = 0
        /\ preparsed.title = pparsed.title
        /\ Len(preparsed.tasks) = Len(pparsed.tasks)
        /\ PathsOf(preparsed.tasks) = PathsOf(pparsed.tasks)

\* ------------------------------------------------------------------------
\* The parser, line by line
\* ------------------------------------------------------------------------
\* parseMarkdown has returned or thrown
Parsed == pstage # "input"

TokensOf(line, kind) == {i \in 1..Len(line.toks) : line.toks[i].t = kind}

\* a task line with a second #due: tag or a second #repeat: tag
TagRepeated(line) ==
    /\ line.k = "task"
    /\ \/ Cardinality(TokensOf(line, "due")) >= 2
       \/ Cardinality(TokensOf(line, "repeat")) >= 2

\* a task line with exactly one tag of each kind
OneOfEach(line) ==
    /\ line.k = "task"
    /\ Cardinality(TokensOf(line, "due")) = 1
    /\ Cardinality(TokensOf(line, "repeat")) = 1

\* the task parsed from line n, when there is one
HasTaskAt(parsed, n) == \E i \in 1..Len(parsed.tasks) : parsed.tasks[i].lineNumber = n
TaskAt(parsed, n) ==
    parsed.tasks[CHOOSE i \in 1..Len(parsed.tasks) : parsed.tasks[i].lineNumber = n]

\* C13: a document with a task line that has two #due: tags or two #repeat:
\* tags is rejected, at such a line; a task line with exactly one #due: tag
\* and one #repeat: tag, in any order, is parsed and both values are those
\* of the tags.
C13_TagUniqueness ==
    Parsed =>
        /\ (\E n \in 1..Len(pdoc) : TagRepeated(pdoc[n])) =>
                /\ pparsed.errorLine \in 1..Len(pdoc)
                /\ TagRepeated(pdoc[pparsed.errorLine])
        /\ \A n \in 1..Len(pdoc) :
                (OneOfEach(pdoc[n]) /\ \A m \in 1..n : ~TagRepeated(pdoc[m])) =>
                    /\ pparsed.errorLine # n
                    /\ HasTaskAt(pparsed, n)
                    /\ \E d \in TokensOf(pdoc[n], "due") :
                            TaskAt(pparsed, n).dueDate = pdoc[n].toks[d].v
                    /\ \E f \in TokensOf(pdoc[n], "repeat") :
                            TaskAt(pparsed, n).repeatFrequency = pdoc[n].toks[f].v

\* a line with two #repeat: tags was rejected, after a line with #repeat:
\* before #due: was parsed
C13_Witness ==
    /\ pstage = "rejected"
    /\ Cardinality(TokensOf(pdoc[pparsed.errorLine], "repeat")) >= 2
    /\ \E n \in 1..Len(pdoc) :
        /\ OneOfEach(pdoc[n])
        /\ HasTaskAt(pparsed, n)
        /\ \E d \in TokensOf(pdoc[n], "due"), f \in TokensOf(pdoc[n], "repeat") : f < d

DigitValue(c) ==
    CASE c = "0" -> 0 [] c = "1" -> 1 [] c = "2" -> 2 [] c = "3" -> 3 [] c = "4" -> 4
      [] c = "5" -> 5 [] c = "6" -> 6 [] c = "7" -> 7 [] c = "8" -> 8 [] c = "9" -> 9

TwoDigits(v, i) == 10 * DigitValue(v[i]) + DigitValue(v[i + 1])

\* YYYY-MM-DD with the month in 01-12 and the day in 01-31
MonthAndDayInRange(v) ==
    /\ Len(v) = 10
    /\ TwoDigits(v, 6) \in 1..12
    /\ TwoDigits(v, 9) \in 1..31

\* C14: every dueDate the parser extracts has its month in 01-12 and its day
\* in 01-31.
C14_DueDateMonthDayRange ==
    Parsed =>
        \A i \in 1..Len(pparsed.tasks) :
            pparsed.tasks[i].dueDate # <<>> => MonthAndDayInRange(pparsed.tasks[i].dueDate)

\* the document with every indent rounded down to a multiple of 4 spaces
FloorIndents(doc) ==
    [i \in 1..Len(doc) |->
        [doc[i] EXCEPT !.indent = SPACES_PER_LEVEL * (doc[i].indent \div SPACES_PER_LEVEL)]]

\* C15: the parser treats a document as it treats the same document with
\* every indent rounded down to a multiple of 4 spaces, and it rejects a
\* document only at a line with a repeated tag.
C15_IndentRoundedDown ==
    Parsed =>
        /\ pparsed = ParseMarkdown(FloorIndents(pdoc))
        /\ pparsed.errorLine # 0 => TagRepeated(pdoc[pparsed.errorLine])

\* a line indented 5 spaces was parsed as a subtask of level 1
C15_Witness ==
    /\ pstage = "parsed"
    /\ \E n \in 1..Len(pdoc) :
        /\ pdoc[n].k = "task"
        /\ pdoc[n].indent = 5
        /\ HasTaskAt(pparsed, n)
        /\ TaskAt(pparsed, n).level = 1
        /\ TaskAt(pparsed, n).parentId # NoId

Increasing(seq) == \A i, j \in 1..Len(seq) : i < j => seq[i] < seq[j]

EnclosingSection(doc, n) ==
    LET above == {i \in 1..(n - 1) : doc[i].k = "h2"}
    IN  IF above = {}
        THEN "todo"
        ELSE LET last == CHOOSE i \in above : \A j \in above : j <= i
             IN  IF doc[last].text = "Doing" THEN "doing"
                 ELSE IF doc[last].text = "Done" THEN "done"
                 ELSE "todo"

\* C17: a task parsed from a checked line is done; a task parsed from an
\* unchecked line has the status of the last section header above it (todo
\* for a header that is none of Todo, Doing, Done), todo without a header.
C17_StatusFromCheckboxAndSection ==
    Parsed =>
        \A i \in 1..Len(pparsed.tasks) :
            LET n == pparsed.tasks[i].lineNumber
            IN  pparsed.tasks[i].status =
                    IF pdoc[n].checked THEN "done" ELSE EnclosingSection(pdoc, n)

\* a checked task and an unchecked task under "## Doing"
C17_Witness ==
    /\ pstage = "parsed"
    /\ \E i, j \in 1..Len(pparsed.tasks) :
        /\ pdoc[pparsed.tasks[i].lineNumber].checked
        /\ EnclosingSection(pdoc, pparsed.tasks[i].lineNumber) = "doing"
        /\ ~pdoc[pparsed.tasks[j].lineNumber].checked
        /\ EnclosingSection(pdoc, pparsed.tasks[j].lineNumber) = "doing"

\* ------------------------------------------------------------------------
\* Recurrence Engine: the next occurrence of a completed repeating task
\* ------------------------------------------------------------------------
DigitChar(n) ==
    CASE n = 0 -> "0" [] n = 1 -> "1" [] n = 2 -> "2" [] n = 3 -> "3" [] n = 4 -> "4"
      [] n = 5 -> "5" [] n = 6 -> "6" [] n = 7 -> "7" [] n = 8 -> "8" [] n = 9 -> "9"

\* "YYYY-MM-DD" to a calendar date and back
ParseDate(v) ==
    [y |-> 100 * TwoDigits(v, 1) + TwoDigits(v, 3), m |-> TwoDigits(v, 6), d |-> TwoDigits(v, 9)]

FormatDate(date) ==
    <<DigitChar(date.y \div 1000), DigitChar((date.y \div 100) % 10),
      DigitChar((date.y \div 10) % 10), DigitChar(date.y % 10), "-",
      DigitChar(date.m \div 10), DigitChar(date.m % 10), "-",
      DigitChar(date.d \div 10), DigitChar(date.d % 10)>>

IsLeapYear(y) == (y % 4 = 0 /\ y % 100 # 0) \/ y % 400 = 0

DaysInMonth(y, m) ==
    CASE m \in {4, 6, 9, 11} -> 30
      [] m = 2 -> IF IsLeapYear(y) THEN 29 ELSE 28
      [] OTHER -> 31

NextDay(date) ==
    IF date.d < DaysInMonth(date.y, date.m)
    THEN [date EXCEPT !.d = @ + 1]
    ELSE IF date.m < 12
         THEN [y |-> date.y, m |-> date.m + 1, d |-> 1]
         ELSE [y |-> date.y + 1, m |-> 1, d |-> 1]

RECURSIVE AddDays(_, _)
AddDays(date, n) == IF n = 0 THEN date ELSE AddDays(NextDay(date), n - 1)

\* one month later, the surplus days carried into the month after
AddMonthOverflowing(date) ==
    LET y2 == IF date.m = 12 THEN date.y + 1 ELSE date.y
        m2 == IF date.m = 12 THEN 1 ELSE date.m + 1
        last == DaysInMonth(y2, m2)
    IN  IF date.d > last
        THEN [y |-> y2, m |-> m2 + 1, d |-> date.d - last]
        ELSE [y |-> y2, m |-> m2, d |-> date.d]

\* one calendar month later, the day clamped to the length of that month
AddMonth(date) ==
    LET y2 == IF date.m = 12 THEN date.y + 1 ELSE date.y
        m2 == IF date.m = 12 THEN 1 ELSE date.m + 1
        last == DaysInMonth(y2, m2)
    IN  [y |-> y2, m |-> m2, d |-> IF date.d > last THEN last ELSE date.d]

NextDueDate(dueDate, frequency) ==
    FormatDate(CASE frequency = "daily" -> AddDays(ParseDate(dueDate), 1)
                 [] frequency = "weekly" -> AddDays(ParseDate(dueDate), 7)
                 [] OTHER -> AddMonth(ParseDate(dueDate)))

\* the successor made a subtask of the completed task
NextOccurrenceBelow(task) ==
    IF task.repeatFrequency = NoValue
    THEN <<>>
    ELSE <<[content |-> task.content,
            status |-> "todo",
            dueDate |-> IF task.dueDate = <<>> THEN <<>>
                        ELSE NextDueDate(task.dueDate, task.repeatFrequency),
            repeatFrequency |-> task.repeatFrequency,
            parentId |-> task.id]>>

\* nextOccurrence(task): the skeleton of the successor, none for a task that
\* does not repeat
NextOccurrence(task) ==
    IF task.repeatFrequency = NoValue
    THEN <<>>
    ELSE <<[content |-> task.content,
            status |-> "todo",
            dueDate |-> IF task.dueDate = <<>> THEN <<>>
                        ELSE NextDueDate(task.dueDate, task.repeatFrequency),
            repeatFrequency |-> task.repeatFrequency,
            parentId |-> task.parentId]>>

\* the years of the due dates: leap, common, and the century years
Years == {2000, 2024, 2025, 2100}

DueDates ==
    {FormatDate([y |-> y, m |-> m, d |-> d]) :
        y \in Years, m \in 1..12, d \in {1, 23, 28, 29, 30, 31}}

\* the tasks a user marks done
RecurTasks ==
    {[id |-> 2, content |-> <<Word("a")>>, status |-> st, dueDate |-> due,
      repeatFrequency |-> f, parentId |-> parent] :
        st \in {"todo", "doing"},
        due \in {v \in DueDates : ParseDate(v).d <= DaysInMonth(ParseDate(v).y, ParseDate(v).m)}
                    \cup {<<>>},
        f \in Frequencies \cup {NoValue},
        parent \in {NoId, 1}}

InitRecur ==
    /\ useSupabase = TRUE
    /\ ServerInit
    /\ ParseIdle
    /\ MonIdle
    /\ ComponentsIdle
    /\ rstage = "input"
    /\ rtask \in RecurTasks
    /\ rnext = <<>>

\* the task is marked done; its successor is computed
MarkDone ==
    /\ rstage = "input"
    /\ rtask' = [rtask EXCEPT !.status = "done"]
    /\ rnext' = NextOccurrence(rtask)
    /\ rstage' = "done"
    /\ UNCHANGED <<serverVars, parseVars, monVars, componentVars>>

NextRecur == MarkDone

SpecRecur == InitRecur /\ [][NextRecur]_vars

CumulativeDays == <<0, 31, 59, 90, 120, 151, 181, 212, 243, 273, 304, 334>>

\* the number of the day in the proleptic Gregorian calendar
DayNumber(date) ==
    365 * date.y
        + (date.y - 1) \div 4 - (date.y - 1) \div 100 + (date.y - 1) \div 400
        + CumulativeDays[date.m]
        + (IF date.m > 2 /\ IsLeapYear(date.y) THEN 1 ELSE 0)
        + date.d

\* a repeating task with a due date was marked done
Recurred == rstage = "done" /\ rnext # <<>> /\ rtask.dueDate # <<>>

\* C18: the due date of the next occurrence is the day after the due date for
\* a daily task, seven days after for a weekly task, and for a monthly task
\* the same day of the next calendar month, or the last day of that month
\* when it is shorter.
C18_NextDueDate ==
    Recurred =>
        LET old == ParseDate(rtask.dueDate)
            new == ParseDate(rnext[1].dueDate)
        IN  /\ rnext[1].dueDate = FormatDate(new)
            /\ new.m \in 1..12
            /\ new.d \in 1..DaysInMonth(new.y, new.m)
            /\ rtask.repeatFrequency = "daily" => DayNumber(new) = DayNumber(old) + 1
            /\ rtask.repeatFrequency = "weekly" => DayNumber(new) = DayNumber(old) + 7
            /\ rtask.repeatFrequency = "monthly" =>
                    /\ 12 * new.y + new.m = 12 * old.y + old.m + 1
                    /\ \/ new.d = old.d
                       \/ new.d = DaysInMonth(new.y, new.m) /\ old.d > new.d

\* a monthly task due 2024-01-31 got a successor due 2024-02-29
C18_Witness ==
    /\ Recurred
    /\ rtask.repeatFrequency = "monthly"
    /\ ParseDate(rtask.dueDate) = [y |-> 2024, m |-> 1, d |-> 31]
    /\ ParseDate(rnext[1].dueDate) = [y |-> 2024, m |-> 2, d |-> 29]

\* C19: marking a repeating task done produces exactly one skeleton, with the
\* content, the repeatFrequency and the parentId of the completed task and
\* status todo; without a dueDate the skeleton has no dueDate.
C19_SuccessorIsSibling ==
    (rstage = "done" /\ rtask.repeatFrequency # NoValue) =>
        /\ rtask.status = "done"
        /\ Len(rnext) = 1
        /\ rnext[1].content = rtask.content
        /\ rnext[1].repeatFrequency = rtask.repeatFrequency
        /\ rnext[1].status = "todo"
        /\ rnext[1].parentId = rtask.parentId
        /\ rnext[1].parentId # rtask.id
        /\ rtask.dueDate = <<>> => rnext[1].dueDate = <<>>

\* a repeating subtask without a dueDate was marked done
C19_Witness ==
    /\ rstage = "done"
    /\ rtask.repeatFrequency # NoValue
    /\ rtask.parentId # NoId
    /\ rtask.dueDate = <<>>
    /\ Len(rnext) = 1

\* ------------------------------------------------------------------------
\* withPerformanceMonitoring(context, operation, log)
\* ------------------------------------------------------------------------
MonitoringContexts ==
    [operation : {"file:read", "markdown:parse", "markdown:update"},
     projectId : {NoValue, "p"},
     taskId : {NoValue, "t"},
     action : {NoValue, "update"}]

\* the default logger of the module, or the logger the caller passes
Loggers == {"logger", "custom"}

OperationResults == {"r1", "r2"}
OperationErrors == {"e1", "e2"}

\* the attributes of the Sentry span: one per optional field that is set
SpanAttributes(context) ==
    (IF context.projectId # NoValue THEN {<<"project.id", context.projectId>>} ELSE {})
        \cup (IF context.taskId # NoValue THEN {<<"task.id", context.taskId>>} ELSE {})
        \cup (IF context.action # NoValue THEN {<<"action", context.action>>} ELSE {})

\* a call to the logger module or to Sentry
MonCall(fn, error, context, log, attributes, code) ==
    [fn |-> fn, error |-> error, context |-> context, log |-> log,
     attributes |-> attributes, code |-> code]

\* up to the await: the measurement and the span are started, operation() is called
StartCalls(context) ==
    <<MonCall("startPerformanceMeasurement", NoValue, context, NoValue, {}, 0),
      MonCall("Sentry.startInactiveSpan", NoValue, context, NoValue, SpanAttributes(context), 0),
      MonCall("operation", NoValue, NoContext, NoValue, {}, 0)>>

\* the rest of the try block
TryCalls(context, log) ==
    <<MonCall("sentrySpan.end", NoValue, NoContext, NoValue, {}, 0),
      MonCall("endPerformanceMeasurement", NoValue, context, log, {}, 0)>>

\* the catch block up to the throw
CatchCalls(error, context, log) ==
    <<MonCall("sentrySpan.setStatus", NoValue, NoContext, NoValue, {}, 2),
      MonCall("sentrySpan.end", NoValue, NoContext, NoValue, {}, 0),
      MonCall("logError", error, context, log, {}, 0),
      MonCall("Sentry.captureException", error, context, NoValue, {}, 0)>>

Returned(result) == [kind |-> "resolved", value |-> result]

\* the catch block ending without the throw
Swallowed(error) == [kind |-> "resolved", value |-> NoValue]

\* throw error
Rethrown(error) == [kind |-> "rejected", value |-> error]

InitMon ==
    /\ useSupabase = TRUE
    /\ ServerInit
    /\ ParseIdle
    /\ RecurIdle
    /\ MonIdle
    /\ ComponentsIdle

WithPerformanceMonitoring(context, log) ==
    /\ mpc = "idle"
    /\ mcontext' = [context |-> context, log |-> log]
    /\ mcalls' = StartCalls(context)
    /\ mpc' = "awaiting"
    /\ UNCHANGED <<moperation, mresult, serverVars, parseVars, recurVars, componentVars>>

\* the awaited operation resolved: the try block runs to its return
OperationResolves(result) ==
    /\ mpc = "awaiting"
    /\ moperation' = [kind |-> "resolved", value |-> result]
    /\ mcalls' = mcalls \o TryCalls(mcontext.context, mcontext.log)
    /\ mresult' = Returned(result)
    /\ mpc' = "resolved"
    /\ UNCHANGED <<mcontext, serverVars, parseVars, recurVars, componentVars>>

\* the awaited operation rejected: the catch block runs to its throw
OperationRejects(error) ==
    /\ mpc = "awaiting"
    /\ moperation' = [kind |-> "rejected", value |-> error]
    /\ mcalls' = mcalls \o CatchCalls(error, mcontext.context, mcontext.log)
    /\ mresult' = Rethrown(error)
    /\ mpc' = "rejected"
    /\ UNCHANGED <<mcontext, serverVars, parseVars, recurVars, componentVars>>

NextMon ==
    \/ \E context \in MonitoringContexts, log \in Loggers :
            WithPerformanceMonitoring(context, log)
    \/ \E result \in OperationResults : OperationResolves(result)
    \/ \E error \in OperationErrors : OperationRejects(error)

SpecMon == InitMon /\ [][NextMon]_vars

CallsTo(fn) == SelectSeq(mcalls, LAMBDA c : c.fn = fn)

\* C20: when the wrapped operation rejects with e, the wrapper rejects with e
\* after one logError(e, context, log), one Sentry.captureException(e,
\* {extra: context}), one setStatus of the span to error and one end of the
\* span; when it resolves with r, the wrapper resolves with r after one end
\* of the span and no report of an error.
C20_FailureNeverSwallowed ==
    /\ mresult.kind # "pending" => moperation.kind = mresult.kind
    /\ moperation.kind = "rejected" =>
            /\ mresult = [kind |-> "rejected", value |-> moperation.value]
            /\ Len(CallsTo("logError")) = 1
            /\ CallsTo("logError")[1].error = moperation.value
            /\ CallsTo("logError")[1].context = mcontext.context
            /\ CallsTo("logError")[1].log = mcontext.log
            /\ Len(CallsTo("Sentry.captureException")) = 1
            /\ CallsTo("Sentry.captureException")[1].error = moperation.value
            /\ CallsTo("Sentry.captureException")[1].context = mcontext.context
            /\ Len(CallsTo("sentrySpan.setStatus")) = 1
            /\ CallsTo("sentrySpan.setStatus")[1].code = 2
            /\ Len(CallsTo("sentrySpan.end")) = 1
    /\ moperation.kind = "resolved" =>
            /\ mresult = [kind |-> "resolved", value |-> moperation.value]
            /\ Len(CallsTo("sentrySpan.end")) = 1
            /\ CallsTo("logError") = <<>>
            /\ CallsTo("Sentry.captureException") = <<>>
            /\ CallsTo("sentrySpan.setStatus") = <<>>

\* an operation on a project, called with the caller's logger, rejected
C20_Witness ==
    /\ mpc = "rejected"
    /\ mcontext.context.projectId # NoValue
    /\ mcontext.log = "custom"
    /\ mresult.kind = "rejected"

\* ------------------------------------------------------------------------
\* Document resubmission: what a pass was given and what it did
\* ------------------------------------------------------------------------
\* request r is a PUT raw of the Supabase mode that got as far as parsing
InPass(r) ==
    /\ useSupabase
    /\ req[r].route = "raw"
    /\ req[r].method = "PUT"
    /\ req[r].status \notin {400, 401, 404}

\* ... and has returned
PassEnded(r) == InPass(r) /\ req[r].pc = "done"
PassSucceeded(r) == PassEnded(r) /\ req[r].status = 200

\* the rows getProject returned, the forest parsed from the submitted document
StoredBefore(r) == req[r].project
Submitted(r) == ParseMarkdown(req[r].content)

RECURSIVE OrdinalPath(_, _)
\* position of a task in a forest: its ordinal among its siblings, preceded by
\* the position of its parent
OrdinalPath(rows, id) ==
    IF IndexOfId(rows, id) = 0
    THEN <<>>
    ELSE LET me == rows[IndexOfId(rows, id)]
             sibs == ChildrenOf(rows, me.parentId)
         IN  Append(OrdinalPath(rows, me.parentId), IndexOfId(sibs, id))

PositionsOf(rows) == {OrdinalPath(rows, rows[i].id) : i \in 1..Len(rows)}

\* the id of the task at a position (NoId when the position is empty)
IdAt(rows, path) ==
    IF \E i \in 1..Len(rows) : OrdinalPath(rows, rows[i].id) = path
    THEN rows[CHOOSE i \in 1..Len(rows) : OrdinalPath(rows, rows[i].id) = path].id
    ELSE NoId

CallsOf(r, kinds) == SelectSeq(req[r].calls, LAMBDA c : c.op \in kinds)

\* C2: after a successful resubmission the stored forest is isomorphic to the
\* forest parsed from the submitted document, and every task at a position
\* present before and after keeps its id.
C2_StoredMatchesSubmitted ==
    \A r \in Requests :
        PassSucceeded(r) =>
            /\ ForestShape(tasks) = ShapeOf(Submitted(r).tasks)
            /\ \A path \in PositionsOf(StoredBefore(r)) \cap PositionsOf(Submitted(r).tasks) :
                    IdAt(tasks, path) = IdAt(StoredBefore(r), path)

\* C3: resubmitting the unmodified rendering of the stored project makes no
\* deleteTask, updateTask or addTask call.
C3_UnchangedDocumentNoCalls ==
    \A r \in Requests :
        (InPass(r) /\ req[r].content = RenderMarkdown(title, StoredBefore(r))) =>
            req[r].calls = <<>>

\* the submitted document is the rendering of the stored project with the
\* text of one task line changed and nothing else
TextEdited(r) ==
    LET loaded == RenderMarkdown(title, StoredBefore(r))
    IN  /\ Len(req[r].content) = Len(loaded)
        /\ \E i \in 1..Len(loaded) :
            /\ loaded[i].k = "task"
            /\ req[r].content[i].k = "task"
            /\ req[r].content[i].indent = loaded[i].indent
            /\ req[r].content[i].toks # loaded[i].toks
            /\ \A j \in (1..Len(loaded)) \ {i} : req[r].content[j] = loaded[j]

\* C4: a task kept in the document with its text edited retains its id: the
\* pass deletes no task and creates none, and the stored ids are the same
\* after the pass.
C4_EditedTaskKeepsId ==
    \A r \in Requests :
        (InPass(r) /\ Submitted(r).errorLine = 0 /\ TextEdited(r)) =>
            /\ CallsOf(r, {"delete", "add"}) = <<>>
            /\ (req[r].pc = "done" => IdsOf(tasks) = IdsOf(StoredBefore(r)))

\* C5: a pass that ends with the error response leaves the stored forest
\* exactly as it was before the pass.
C5_FailedPassChangesNothing ==
    \A r \in Requests :
        (PassEnded(r) /\ req[r].status = 500) => tasks = StoredBefore(r)

\* C7: a submitted document that fails parse validation is answered with an
\* error and the stored tasks and the stored file are left untouched, in
\* both storage modes.
C7_InvalidDocumentChangesNothing ==
    \A r \in Requests :
        (/\ req[r].route = "raw"
         /\ req[r].method = "PUT"
         /\ req[r].pc = "done"
         /\ req[r].status \notin {400, 401, 404}
         /\ ParseMarkdown(req[r].content).errorLine # 0) =>
            /\ req[r].status # 200
            /\ tasks = req[r].project
            /\ file = req[r].fileBefore

\* the call that created the task parsed with serial nid, if the pass made one
CreatedAs(r, nid) ==
    LET made == SelectSeq(req[r].calls, LAMBDA c : c.op = "add" /\ c.ok /\ c.nid = nid)
    IN  IF made = <<>> THEN NoId ELSE made[1].id

\* the store id of the task of the submitted document with serial nid: the id
\* of the stored task it was matched with, or the id it was created with
DurableId(r, nid) ==
    IF \E i \in 1..Len(req[r].calls) : req[r].calls[i].op = "update" /\ req[r].calls[i].nid = nid
    THEN nid
    ELSE CreatedAs(r, nid)

\* C8: every stored task that is no key of the submitted forest is gone after
\* a successful pass, and no descendant of a task the pass deleted remains.
C8_DeleteCascades ==
    \A r \in Requests :
        /\ PassSucceeded(r) =>
                \A id \in IdsOf(StoredBefore(r)) \ IdsOf(Submitted(r).tasks) :
                    id \notin IdsOf(tasks)
        /\ InPass(r) =>
                \A i \in 1..Len(req[r].calls) :
                    (req[r].calls[i].op = "delete" /\ req[r].calls[i].ok) =>
                        ({req[r].calls[i].id}
                            \cup DescendantsOf(StoredBefore(r), {req[r].calls[i].id}))
                                \cap IdsOf(tasks) = {}

\* a successful pass deleted a stored task that had subtasks
C8_Witness ==
    \E r \in Requests :
        /\ PassSucceeded(r)
        /\ \E i \in 1..Len(req[r].calls) :
            /\ req[r].calls[i].op = "delete"
            /\ req[r].calls[i].targetPresent
            /\ DescendantsOf(StoredBefore(r), {req[r].calls[i].id}) # {}

\* C9: every addTask call of a pass carries no parentId (top-level task) or
\* the store id of the parent: the id the parent was matched with or was
\* created with, a row of the store at the time of the call.
C9_CreateUnderDurableParent ==
    \A r \in Requests :
        InPass(r) =>
            \A i \in 1..Len(req[r].calls) :
                (req[r].calls[i].op = "add" /\ req[r].calls[i].parentId # NoId) =>
                    /\ req[r].calls[i].parentPresent
                    /\ req[r].calls[i].parentId = DurableId(r, req[r].calls[i].parentId)

\* C10: in a pass no deleteTask call follows an addTask or updateTask call,
\* and the addTask call of a subtask follows the addTask call of its parent
\* when the parent is created by the pass.
C10_DeletesFirstParentsFirst ==
    \A r \in Requests :
        InPass(r) =>
            \A j \in 1..Len(req[r].calls) :
                /\ req[r].calls[j].op = "delete" =>
                        \A i \in 1..(j - 1) : req[r].calls[i].op = "delete"
                /\ (/\ req[r].calls[j].op = "add"
                    /\ \E k \in 1..Len(req[r].ops) :
                            /\ req[r].ops[k].op = "add"
                            /\ req[r].ops[k].task.id = req[r].calls[j].parentId) =>
                        \E i \in 1..(j - 1) :
                            /\ req[r].calls[i].op = "add"
                            /\ req[r].calls[i].nid = req[r].calls[j].parentId

\* a pass deleted a task, then created a parent and then its subtask
C10_Witness ==
    \E r \in Requests :
        /\ InPass(r)
        /\ \E d, i, j \in 1..Len(req[r].calls) :
            /\ d < i
            /\ i < j
            /\ req[r].calls[d].op = "delete"
            /\ req[r].calls[i].op = "add"
            /\ req[r].calls[j].op = "add"
            /\ req[r].calls[j].parentId = req[r].calls[i].nid

\* the fields in which a stored row and a parsed task differ
ChangedFields(row, task) == {f \in UpdatedFields : row[f] # task[f]}

\* C11: every updateTask call of a pass is for a matched pair that differs in
\* content, status, dueDate or repeatFrequency, and carries exactly the
\* fields that differ.
C11_UpdateOnlyChangedFields ==
    \A r \in Requests :
        InPass(r) =>
            \A i \in 1..Len(req[r].calls) :
                (req[r].calls[i].op = "update"
                    /\ req[r].calls[i].id \in IdsOf(StoredBefore(r))) =>
                    LET row == StoredBefore(r)[IndexOfId(StoredBefore(r), req[r].calls[i].id)]
                        new == Submitted(r).tasks[IndexOfId(Submitted(r).tasks,
                                                            req[r].calls[i].nid)]
                    IN  /\ ChangedFields(row, new) # {}
                        /\ req[r].calls[i].fields = ChangedFields(row, new)

\* the document with its H1 lines replaced by the given title
WithTitle(doc, t) == [i \in 1..Len(doc) |-> IF doc[i].k = "h1" THEN H1(t) ELSE doc[i]]

\* request r submitted a document whose H1 is not the stored title
TitleEdited(r) ==
    /\ InPass(r)
    /\ Submitted(r).errorLine = 0
    /\ \E i \in 1..Len(req[r].content) : req[r].content[i].k = "h1"
    /\ Submitted(r).title # title

\* C12: when the H1 of the submitted document differs from the stored title,
\* the response of a successful pass reports the difference, and the store
\* calls of the pass are those of the same document under the stored title.
C12_TitleDifferenceReported ==
    \A r \in Requests :
        TitleEdited(r) =>
            /\ req[r].status = 200 => req[r].json \ {"success"} # {}
            /\ LET same == PassOps(StoredBefore(r),
                                   ParseMarkdown(WithTitle(req[r].content, title)).tasks)
               IN  \A i \in 1..Len(req[r].calls) :
                        /\ i <= Len(same)
                        /\ req[r].calls[i].op = same[i].op
                        /\ req[r].calls[i].nid = same[i].task.id

\* ------------------------------------------------------------------------
\* Two clients: resubmissions of the same project in flight together
\* ------------------------------------------------------------------------
\* every client sends one resubmission
NextConcurrent ==
    \E r \in Requests :
        \/ \E doc \in EditedDocs(CurrentDocument) : PutRawSupabase(r, ProjectId, "u", "string", doc)
        \/ PutDeleteTask(r)
        \/ PutUpdateTask(r)
        \/ \E newId \in Ids : PutAddTask(r, newId)
        \/ PutAddTaskRefused(r)
        \/ PutStoreCallThrows(r)
        \/ \E doc \in FileDocs : PutRawFile(r, ProjectId, "u", "string", doc)
        \/ PutFileLockAcquired(r)
        \/ PutFileWrite(r)

SpecConcurrent == Init /\ [][NextConcurrent]_vars

\* ------------------------------------------------------------------------
\* A pass run alone, from getProject to the response, no store call failing
\* ------------------------------------------------------------------------
\* ids a store may give to a new row: an unused id that a serial of a parsed
\* document can equal, or the smallest unused id beyond those
FreshIds(used) ==
    LET low == (1..MaxDocTasks) \ used
        high == ((MaxDocTasks + 1)..(MaxId + 4 * MaxDocTasks)) \ used
    IN  low \cup (IF high = {} THEN {}
                  ELSE {CHOOSE n \in high : \A m \in high : n <= m})

\* the store after one store call of the pass, for every id the store may pick
CallOutcomes(o, s) ==
    CASE o.op = "delete" -> {[rows |-> DeleteTask(s.rows, o.id), used |-> s.used]}
      [] o.op = "update" -> {[rows |-> UpdateTask(s.rows, o.id, o.task), used |-> s.used]}
      [] OTHER ->
            IF ParentAccepted(s.rows, o.task.parentId)
            THEN {[rows |-> AddTask(s.rows, n, o.task, o.task.parentId),
                   used |-> s.used \cup {n}] : n \in FreshIds(s.used)}
            ELSE {}

RECURSIVE CallsFrom(_, _, _)
CallsFrom(ops, i, stores) ==
    IF i > Len(ops)
    THEN stores
    ELSE CallsFrom(ops, i + 1, UNION {CallOutcomes(ops[i], s) : s \in stores})

\* the stores a whole successful pass over doc can leave, started on store s
PassAlone(s, doc) ==
    IF ParseMarkdown(doc).errorLine # 0
    THEN {}
    ELSE CallsFrom(PassOps(s.rows, ParseMarkdown(doc).tasks), 1, {s})

\* first the pass over d1, then the pass over d2
PassesInOrder(s, d1, d2) == UNION {PassAlone(mid, d2) : mid \in PassAlone(s, d1)}

\* C6: after two successful resubmissions of one project, in flight together
\* from the same stored forest, the store holds what running the two passes
\* one after the other, in one of the two orders, leaves.
C6_Serializable ==
    (/\ PassSucceeded(1)
     /\ PassSucceeded(2)
     /\ StoredBefore(1) = StoredBefore(2)
     /\ req[1].usedBefore = req[2].usedBefore) =>
        LET start == [rows |-> StoredBefore(1), used |-> req[1].usedBefore]
            serial == PassesInOrder(start, req[1].content, req[2].content)
                        \cup PassesInOrder(start, req[2].content, req[1].content)
        IN  ForestShape(tasks) \in {ForestShape(s.rows) : s \in serial}


\* ------------------------------------------------------------------------
\* Request ids (lib/monitoring.ts, generateRequestId)
\* ------------------------------------------------------------------------
MaxRequestIds == 2
MaxMillis == 2

\* the values Date.now() takes, in milliseconds
DateNowValues == 0..MaxMillis

\* a value of Math.random(), written as the digits of its base-36 fraction;
\* 0 has no digit, 0.5 has the one digit i
RandomPrefix == <<"k", "3", "x", "9", "q", "0">>
RandomValues ==
    {<<>>, <<"i">>} \cup {RandomPrefix \o <<a, b>> : a, b \in {"0", "z"}}

\* Number.prototype.toString(36) of a value in [0, 1)
ToString36(random) ==
    IF random = <<>> THEN <<"0">> ELSE <<"0", ".">> \o random

\* String.prototype.substring(start, end): characters start .. end - 1, from 0
Substring(str, start, end) ==
    SubSeq(str, start + 1, IF end < Len(str) THEN end ELSE Len(str))

\* `req_${Date.now()}_${Math.random().toString(36).substring(2, 9)}`, kept as
\* its three parts
GenerateRequestId(now, random) ==
    <<"req", now, Substring(ToString36(random), 2, 9)>>

InitIds ==
    /\ useSupabase = TRUE
    /\ ServerInit
    /\ ParseIdle
    /\ RecurIdle
    /\ MonIdle
    /\ dateNow \in DateNowValues
    /\ requestIds = <<>>
    /\ TransactionIdle
    /\ SidebarIdle

\* the clock moves on
DateNowAdvances(now) ==
    /\ now > dateNow
    /\ dateNow' = now
    /\ UNCHANGED <<requestIds, txVars, sidebarVars, serverVars, parseVars, recurVars, monVars>>

\* one call of generateRequestId
GenerateRequestIdCalled(random) ==
    /\ Len(requestIds) < MaxRequestIds
    /\ requestIds' = Append(requestIds, GenerateRequestId(dateNow, random))
    /\ UNCHANGED <<dateNow, txVars, sidebarVars, serverVars, parseVars, recurVars, monVars>>

NextIds ==
    \/ \E now \in DateNowValues : DateNowAdvances(now)
    \/ \E random \in RandomValues : GenerateRequestIdCalled(random)

SpecIds == InitIds /\ [][NextIds]_vars

\* C22: any two calls of generateRequestId return different ids, also when
\* both calls fall into the same millisecond
C22_RequestIdsDiffer ==
    \A i, j \in 1..Len(requestIds) : i # j => requestIds[i] # requestIds[j]

\* ------------------------------------------------------------------------
\* API transactions (lib/monitoring.ts, startApiTransaction)
\* ------------------------------------------------------------------------
MaxEnds == 2

\* performance.now() in thousandths of a millisecond
PerformanceNowValues == {0, 999999, 1000000, 1000001}
StatusCodes == {200, 399, 400, 499, 500}
ApiRequestContexts == [method : {"GET", "PUT"}, path : {"/api/v1/projects"}]

\* threshold_ms of the slow request report
SLOW_REQUEST_THRESHOLD_MS == 1000

\* a status code above 500 only is logged as an error
LevelErrorAbove500(statusCode) ==
    IF statusCode > 500 THEN "error" ELSE IF statusCode >= 400 THEN "warn" ELSE "info"

Level(statusCode) ==
    IF statusCode >= 500 THEN "error" ELSE IF statusCode >= 400 THEN "warn" ELSE "info"

\* Math.round(duration * 100) / 100, in hundredths of a millisecond
RoundedDuration(duration) == (duration + 5) \div 10

LogRecord(level, type, context, statusCode, duration) ==
    [level |-> level, type |-> type, method |-> context.method, path |-> context.path,
     statusCode |-> statusCode, duration_ms |-> duration]

\* the records one call of end(statusCode) writes
EndRecords(context, statusCode, duration) ==
    <<LogRecord(Level(statusCode), "api_request_end", context, statusCode,
                RoundedDuration(duration))>>
    \o (IF duration > SLOW_REQUEST_THRESHOLD_MS * 1000
        THEN <<LogRecord("warn", "slow_request", context, 0, duration)>>
        ELSE <<>>)

InitTransaction ==
    /\ useSupabase = TRUE
    /\ ServerInit
    /\ ParseIdle
    /\ RecurIdle
    /\ MonIdle
    /\ IdsIdle
    /\ performanceNow \in PerformanceNowValues
    /\ transaction = NoTransaction
    /\ logged = <<>>
    /\ SidebarIdle

PerformanceNowAdvances(now) ==
    /\ now > performanceNow
    /\ performanceNow' = now
    /\ UNCHANGED <<transaction, logged, idVars, sidebarVars, serverVars, parseVars, recurVars, monVars>>

StartApiTransaction(context) ==
    /\ ~transaction.started
    /\ transaction' = [started |-> TRUE, startTime |-> performanceNow,
                       method |-> context.method, path |-> context.path,
                       ends |-> <<>>]
    /\ logged' = Append(logged, LogRecord("info", "api_request_start", context, 0, 0))
    /\ UNCHANGED <<performanceNow, idVars, sidebarVars, serverVars, parseVars, recurVars, monVars>>

EndsLogged == SelectSeq(logged, LAMBDA rec : rec.type = "api_request_end")

TransactionEnd(statusCode) ==
    /\ transaction.started
    /\ Len(transaction.ends) < MaxEnds
    /\ logged' = logged \o EndRecords(transaction, statusCode,
                                       performanceNow - transaction.startTime)
    /\ transaction' = [transaction EXCEPT !.ends =
            Append(@, [statusCode |-> statusCode,
                       duration |-> performanceNow - transaction.startTime])]
    /\ UNCHANGED <<performanceNow, idVars, sidebarVars, serverVars, parseVars, recurVars, monVars>>

NextTransaction ==
    \/ \E now \in PerformanceNowValues : PerformanceNowAdvances(now)
    \/ \E context \in ApiRequestContexts : StartApiTransaction(context)
    \/ \E statusCode \in StatusCodes : TransactionEnd(statusCode)

SpecTransaction == InitTransaction /\ [][NextTransaction]_vars


\* the records that follow the k-th api_request_end record up to the next one
RECURSIVE RecordsAfterEnd(_, _)
RecordsAfterEnd(recs, k) ==
    IF recs = <<>> THEN <<>>
    ELSE IF Head(recs).type = "api_request_end"
         THEN IF k = 1
              THEN LET rest == Tail(recs)
                       RECURSIVE UpToEnd(_)
                       UpToEnd(rs) ==
                           IF rs = <<>> \/ Head(rs).type = "api_request_end" THEN <<>>
                           ELSE <<Head(rs)>> \o UpToEnd(Tail(rs))
                   IN  UpToEnd(rest)
              ELSE RecordsAfterEnd(Tail(recs), k - 1)
         ELSE RecordsAfterEnd(Tail(recs), k)

\* C21: every call of end(statusCode) writes one api_request_end record, at
\* level error from 500 on, warn from 400 to 499 and info below, and a
\* slow_request warning exactly when the duration exceeded 1000 ms
C21_EndRecordAndSlowRequest ==
    /\ Len(EndsLogged) = Len(transaction.ends)
    /\ \A k \in 1..Len(transaction.ends) :
        LET call == transaction.ends[k]
            rec == EndsLogged[k]
            after == RecordsAfterEnd(logged, k)
        IN  /\ rec.statusCode = call.statusCode
            /\ call.statusCode >= 500 => rec.level = "error"
            /\ (call.statusCode >= 400 /\ call.statusCode < 500) => rec.level = "warn"
            /\ call.statusCode < 400 => rec.level = "info"
            /\ \A j \in 1..Len(after) :
                    after[j].type = "slow_request" /\ after[j].level = "warn"
            /\ Len(after) = (IF call.duration > 1000 * 1000 THEN 1 ELSE 0)

\* end(400) after exactly one second, then end(500) a thousandth of a
\* millisecond later: a warning, then an error and a slow request
C21_Witness ==
    /\ Len(transaction.ends) = 2
    /\ transaction.ends[1] = [statusCode |-> 400, duration |-> 1000000]
    /\ transaction.ends[2] = [statusCode |-> 500, duration |-> 1000001]
    /\ Len(logged) = 4


\* ------------------------------------------------------------------------
\* Store calls on removed tasks
\* ------------------------------------------------------------------------
\* C23: within one PUT raw pass, deleteTask and updateTask are never called
\* with the id of a task the same pass has removed before, in particular not
\* with a descendant of a task whose delete cascaded
C23_NoCallOnRemovedTask ==
    \A r \in Requests :
        \A k \in 1..Len(req[r].calls) :
            LET call == req[r].calls[k]
            IN  (call.op \in {"delete", "update"} /\ call.id \in IdsOf(StoredBefore(r)))
                    => call.targetPresent


\* ------------------------------------------------------------------------
\* The route handlers: sessions without a user, invalid input, transactions
\* ------------------------------------------------------------------------
\* C24: a handler that reads or changes project data, called in a session
\* without a user id, answers 401 (or 400, where the input is rejected before
\* the session is looked at) and does not touch the store or the file system,
\* in both storage modes
C24_NoUserNoAccess ==
    \A r \in Requests :
        (req[r].route # "" /\ req[r].userId = NoValue) =>
            /\ ~req[r].accessed
            /\ req[r].pc = "done" => req[r].status \in {400, 401}

\* request r has been rejected by a validator: validateProjectId on any route
\* with a project id, the typeof check of PUT raw, and validateProjectTitle,
\* which PUT /projects/[projectId] calls for the requests of a signed-in user
InputRejected(r) ==
    \/ req[r].route \in {"raw", "project"} /\ ~ValidateProjectId(req[r].projectId)
    \/ req[r].route = "raw" /\ req[r].method = "PUT" /\ req[r].typeofBody # "string"
    \/ /\ req[r].route = "project"
       /\ req[r].method = "PUT"
       /\ req[r].userId # NoValue
       /\ ~ValidateProjectTitle(req[r].typeofBody, req[r].newTitle)

Spaces(n) == [i \in 1..n |-> " "]

\* stored is sent without its leading and trailing spaces
IsTrimOf(stored, sent) ==
    LET chars == Chars(stored)
    IN  /\ chars # <<>> => (chars[1] # " " /\ chars[Len(chars)] # " ")
        /\ \E k, m \in 0..Len(Chars(sent)) :
                Chars(sent) = Spaces(k) \o chars \o Spaces(m)

\* C25: a request whose input a validator rejects is answered 400 and writes
\* no task, no title and no file; and the title PUT /projects/[projectId]
\* stores is the submitted title trimmed
C25_InvalidInputChangesNothing ==
    \A r \in Requests :
        /\ InputRejected(r) =>
            /\ req[r].pc = "done"
            /\ req[r].status = 400
            /\ req[r].calls = <<>>
            /\ ~req[r].accessed
            /\ tasks = req[r].project
            /\ title = req[r].titleBefore
            /\ file = req[r].fileBefore
        /\ (/\ req[r].route = "project"
            /\ req[r].method = "PUT"
            /\ req[r].projectId = ProjectId
            /\ req[r].status = 200) =>
                IF useSupabase
                THEN IsTrimOf(title, req[r].newTitle)
                ELSE \A i \in 1..Len(file) :
                        file[i].k = "h1" => IsTrimOf(file[i].text, req[r].newTitle)

\* the title " U " has been stored as U, and a title of spaces is rejected
C25_Witness ==
    /\ useSupabase
    /\ title = "U"
    /\ req[1].route = "project"
    /\ req[1].method = "PUT"
    /\ req[1].newTitle = "  "
    /\ req[1].userId # NoValue
    /\ req[1].status = 400

\* C27: an execution of GET /api/v1/projects calls transaction.end once: with
\* 200 when it answers with the list, with 500 when it answers with the error
C27_TransactionEndedOnce ==
    \A r \in Requests :
        (req[r].route = "projects" /\ req[r].pc = "done") =>
            /\ Len(req[r].ends) = 1
            /\ req[r].json = {"projects"} => req[r].ends = <<200>>
            /\ req[r].json = {"error"} => req[r].ends = <<500>>
            /\ req[r].json \in {{"projects"}, {"error"}}

\* getAllProjects rejected: the error response, the transaction ended with 500
C27_Witness ==
    /\ req[1].route = "projects"
    /\ req[1].pc = "done"
    /\ req[1].status = 500
    /\ req[1].ends = <<500>>


\* ------------------------------------------------------------------------
\* The Sidebar's title editor (components/Sidebar)
\* ------------------------------------------------------------------------
\* the projects prop
SidebarProjects == {[id |-> "a", title |-> "T"], [id |-> "b", title |-> "U"]}

\* the texts a user types into the input
TypedTitles == {" U ", "  "}

\* the three state values as the hooks hold them
CurrentState ==
    [editingProjectId |-> editingProjectId, editingTitle |-> editingTitle,
     isSubmitting |-> isSubmitting]

\* the input of the project being edited is on the page / takes keys
InputRendered == rendered.editingProjectId # NoValue
InputEnabled == InputRendered /\ ~rendered.isSubmitting

\* a save is refused only when no project is being edited
SaveRefusedWhenIdle(closure) == closure.editingProjectId = NoValue

\* if (!editingProjectId || isSubmitting) return
SaveRefused(closure) == closure.editingProjectId = NoValue \/ closure.isSubmitting

\* the catch block closes the edit mode as the try block does
AfterRejectedClosing(state) ==
    [state EXCEPT !.editingProjectId = NoValue, !.isSubmitting = FALSE]

\* the awaited call resolved: setEditingProjectId(null), then finally
AfterResolved(state) ==
    [state EXCEPT !.editingProjectId = NoValue, !.isSubmitting = FALSE]

\* the awaited call rejected: the catch block keeps the state, then finally
AfterRejected(state) == [state EXCEPT !.isSubmitting = FALSE]

\* handleSave got past its guard with the values of the render it closed over
Save(closure, outcome) ==
    [NoSave EXCEPT !.projectId = closure.editingProjectId,
                   !.typed = closure.editingTitle,
                   !.sent = Trim(closure.editingTitle),
                   !.outcome = outcome,
                   !.before = CurrentState]

InitSidebar ==
    /\ useSupabase = TRUE
    /\ ServerInit
    /\ ParseIdle
    /\ RecurIdle
    /\ MonIdle
    /\ IdsIdle
    /\ TransactionIdle
    /\ SidebarIdle

\* the state values after an event handler; the updates of a handler are
\* rendered before the next event
Committed(id, text, submitting) ==
    /\ editingProjectId' = id
    /\ editingTitle' = text
    /\ isSubmitting' = submitting
    /\ rendered' = [editingProjectId |-> id, editingTitle |-> text,
                    isSubmitting |-> submitting]

\* a double click on the title of a project that is not being edited
HandleDoubleClick(project) ==
    /\ rendered.editingProjectId # project.id
    /\ Committed(project.id, project.title, isSubmitting)
    /\ inFlight' = [k \in DOMAIN inFlight |-> [inFlight[k] EXCEPT !.reopened = TRUE]]
    /\ UNCHANGED <<lastSave, idVars, txVars, serverVars, parseVars, recurVars, monVars>>

\* onChange of the input
HandleChange(text) ==
    /\ InputEnabled
    /\ Committed(editingProjectId, text, isSubmitting)
    /\ UNCHANGED <<inFlight, lastSave, idVars, txVars, serverVars, parseVars, recurVars, monVars>>

\* handleSave as the committed render closed over it, up to the await
HandleSave ==
    IF SaveRefused(rendered)
    THEN /\ inFlight' = [k \in DOMAIN inFlight |-> [inFlight[k] EXCEPT !.retried = TRUE]]
         /\ UNCHANGED <<editingProjectId, editingTitle, isSubmitting, rendered, lastSave>>
    ELSE IF Trim(rendered.editingTitle) = ""
         THEN /\ Committed(NoValue, editingTitle, isSubmitting)
              /\ lastSave' = [Save(rendered, "empty") EXCEPT
                                !.after = [CurrentState EXCEPT !.editingProjectId = NoValue]]
              /\ UNCHANGED inFlight
         ELSE /\ Committed(editingProjectId, editingTitle, TRUE)
              /\ inFlight' = Append(inFlight, Save(rendered, "pending"))
              /\ UNCHANGED lastSave

\* Enter in the input
HandleKeyDownEnter ==
    /\ InputEnabled
    /\ HandleSave
    /\ UNCHANGED <<idVars, txVars, serverVars, parseVars, recurVars, monVars>>

\* the input loses the focus
HandleBlur ==
    /\ InputRendered
    /\ HandleSave
    /\ UNCHANGED <<idVars, txVars, serverVars, parseVars, recurVars, monVars>>

\* Escape in the input: handleCancel
HandleKeyDownEscape ==
    /\ InputEnabled
    /\ Committed(NoValue, "", isSubmitting)
    /\ UNCHANGED <<inFlight, lastSave, idVars, txVars, serverVars, parseVars, recurVars, monVars>>

\* the state values after the rest of handleSave, which runs outside any event
Settled(k, outcome, state) ==
    /\ editingProjectId' = state.editingProjectId
    /\ editingTitle' = state.editingTitle
    /\ isSubmitting' = state.isSubmitting
    /\ inFlight' = SubSeq(inFlight, 1, k - 1) \o SubSeq(inFlight, k + 1, Len(inFlight))
    /\ lastSave' = [inFlight[k] EXCEPT !.outcome = outcome, !.before = CurrentState,
                                       !.after = state]

\* onProjectTitleUpdate resolved
UpdateResolves(k) ==
    /\ k \in DOMAIN inFlight
    /\ Settled(k, "resolved", AfterResolved(CurrentState))
    /\ UNCHANGED <<rendered, idVars, txVars, serverVars, parseVars, recurVars, monVars>>

\* onProjectTitleUpdate rejected
UpdateRejects(k) ==
    /\ k \in DOMAIN inFlight
    /\ Settled(k, "rejected", AfterRejected(CurrentState))
    /\ UNCHANGED <<rendered, idVars, txVars, serverVars, parseVars, recurVars, monVars>>

\* the component renders again with the state values of the hooks
Render ==
    /\ rendered # CurrentState
    /\ rendered' = CurrentState
    /\ UNCHANGED <<editingProjectId, editingTitle, isSubmitting, inFlight, lastSave,
                   idVars, txVars, serverVars, parseVars, recurVars, monVars>>

NextSidebar ==
    \/ \E project \in SidebarProjects : HandleDoubleClick(project)
    \/ \E text \in TypedTitles : HandleChange(text)
    \/ HandleKeyDownEnter
    \/ HandleBlur
    \/ HandleKeyDownEscape
    \/ \E k \in DOMAIN inFlight : UpdateResolves(k)
    \/ \E k \in DOMAIN inFlight : UpdateRejects(k)
    \/ Render

SpecSidebar == InitSidebar /\ [][NextSidebar]_vars

\* C28 as stated: after the call settled isSubmitting is false, the edit mode
\* is closed after a success and open on the same project with the typed
\* title after a failure; a title that is empty once trimmed closes the edit
\* mode and onProjectTitleUpdate is not called
C28_SaveSettles ==
    /\ lastSave.outcome \in {"resolved", "rejected"} => ~lastSave.after.isSubmitting
    /\ lastSave.outcome = "resolved" => lastSave.after.editingProjectId = NoValue
    /\ lastSave.outcome = "rejected" =>
            /\ lastSave.after.editingProjectId = lastSave.projectId
            /\ lastSave.after.editingTitle = lastSave.typed
    /\ lastSave.outcome = "empty" =>
            /\ lastSave.after.editingProjectId = NoValue
            /\ IsTrimOf("", lastSave.typed)
    /\ \A k \in DOMAIN inFlight :
            /\ ~IsTrimOf("", inFlight[k].typed)
            /\ IsTrimOf(inFlight[k].sent, inFlight[k].typed)

\* C28, amended: ... and open on the same project with the typed title after
\* a failure, provided no other title was double-clicked while the call was
\* awaited
C28_SaveSettlesUnlessReopened ==
    /\ lastSave.outcome \in {"resolved", "rejected"} => ~lastSave.after.isSubmitting
    /\ lastSave.outcome = "resolved" => lastSave.after.editingProjectId = NoValue
    /\ (lastSave.outcome = "rejected" /\ ~lastSave.reopened) =>
            /\ lastSave.after.editingProjectId = lastSave.projectId
            /\ lastSave.after.editingTitle = lastSave.typed
    /\ lastSave.outcome = "empty" =>
            /\ lastSave.after.editingProjectId = NoValue
            /\ IsTrimOf("", lastSave.typed)
    /\ \A k \in DOMAIN inFlight :
            /\ ~IsTrimOf("", inFlight[k].typed)
            /\ IsTrimOf(inFlight[k].sent, inFlight[k].typed)

\* the save of " U " has failed and the editor is still open on it
C28_Witness ==
    /\ lastSave.outcome = "rejected"
    /\ lastSave.typed = " U "
    /\ lastSave.sent = "U"
    /\ ~lastSave.reopened
    /\ editingProjectId = lastSave.projectId
    /\ editingTitle = " U "
    /\ ~isSubmitting

\* C29: at most one call of onProjectTitleUpdate is in flight, whatever the
\* order of Enter, blur and the renders
C29_OneSaveInFlight == Len(inFlight) <= 1

\* a save is awaited and handleSave ran again meanwhile
C29_Witness ==
    /\ Len(inFlight) = 1
    /\ inFlight[1].retried

\* C30: when the title of another project was opened for editing while a save
\* was awaited, the success of the save leaves that edit session as it is
C30_SuccessKeepsOtherSession ==
    (/\ lastSave.outcome = "resolved"
     /\ lastSave.before.editingProjectId \notin {NoValue, lastSave.projectId}) =>
        /\ lastSave.after.editingProjectId = lastSave.before.editingProjectId
        /\ lastSave.after.editingTitle = lastSave.before.editingTitle

====
